---- MODULE Spec2Model ----
(***************************************************************************)
(* Real-time collaboration engine of backend/services/collaboration.py:    *)
(* CollaborationManager, one instance per server process, all processes    *)
(* sharing one Redis broker (history lists and the escap_collaboration     *)
(* pub/sub channel).                                                        *)
(*                                                                         *)
(* Every action is the code one asyncio task runs between two awaits that   *)
(* suspend it: asyncio tasks of one process interleave only there.  A      *)
(* broadcast whose recipient list is empty awaits nothing and therefore    *)
(* does not suspend its caller.                                             *)
(*                                                                         *)
(* Abstractions: a connection's uuid4 is its index in Conns (fresh, never   *)
(* reused); utcnow() reads a logical clock that ticks once per accepted     *)
(* client message; a JSON text is a record (valid, obj, body) and           *)
(* json.loads / json.dumps are Loads / Dumps below; the 24 h of the TTL    *)
(* are not measured, only which write set the expiry last.                  *)
(***************************************************************************)
EXTENDS Integers, Sequences, FiniteSets, TLC

\* ------------------------------------------------------------ bounds
MaxConns == 4
MaxInputs == 3
JoinedInputs == 2
FullInputs == 1
TrioInputs == 2
RelayInputs == 2
LeavingInputs == 2
Prior == 2

\* ------------------------------------------------------------ program constants
HistoryCap == 1000
ReplayLimit == 50
TTLSeconds == 86400

Procs == {"p1", "p2"}
Sessions == {"s1", "s2"}
Conns == 1..MaxConns
Channel == "escap_collaboration"

\* None, for a user id / a session id / a type
NoUser == 0
NoSession == "None"
NoType == "None"

event_types ==
  [VIEW_CHANGE |-> "view_change", LAYER_CHANGE |-> "layer_change",
   COUNTRY_CHANGE |-> "country_change", USER_JOIN |-> "user_join",
   USER_LEAVE |-> "user_leave", CURSOR_MOVE |-> "cursor_move",
   ANNOTATION |-> "annotation"]

\* ------------------------------------------------------------ JSON
EmptyDict == [k \in {} |-> 0]

\* json.dumps of a dict
Dumps(d) == [valid |-> TRUE, obj |-> TRUE, body |-> d]

\* texts that are not the encoding of a dict
Garbled == [valid |-> FALSE, obj |-> FALSE, body |-> EmptyDict]
NonObject == [valid |-> TRUE, obj |-> FALSE, body |-> EmptyDict]

\* json.loads: JSONDecodeError on an invalid text, else the value
Loads(text) ==
  IF ~text.valid THEN [err |-> "JSONDecodeError", isdict |-> FALSE, value |-> EmptyDict]
  ELSE [err |-> "none", isdict |-> text.obj, value |-> text.body]

\* dict.get(key) with a default
Get(d, key, default) == IF key \in DOMAIN d THEN d[key] ELSE default

\* what a client may put on the wire
ClientTexts ==
  { Garbled,
    NonObject,
    Dumps([type |-> "view_change"]),
    Dumps([type |-> "bogus", user_id |-> 1, session_id |-> "s2", timestamp |-> -1]) }

\* ------------------------------------------------------------ sequences
RECURSIVE SeqRemove(_, _)
SeqRemove(seq, x) ==
  IF seq = <<>> THEN <<>>
  ELSE IF Head(seq) = x THEN SeqRemove(Tail(seq), x)
  ELSE <<Head(seq)>> \o SeqRemove(Tail(seq), x)

Range(seq) == { seq[i] : i \in 1..Len(seq) }

\* ------------------------------------------------------------ Redis commands
\* (a variant: RPUSH)
RedisRPush(list, x) == list \o <<x>>

\* LPUSH key x
RedisLPush(list, x) == <<x>> \o list

\* LTRIM key start stop (0-based, inclusive, non-negative indices)
RedisLTrim(list, start, stop) ==
  SubSeq(list, start + 1, IF stop + 1 < Len(list) THEN stop + 1 ELSE Len(list))

\* (a variant: the range starts one entry late)
RedisLRangeSkipNewest(list, start, stop) ==
  SubSeq(list, start + 2, IF stop + 1 < Len(list) THEN stop + 1 ELSE Len(list))

\* LRANGE key start stop (0-based, inclusive, non-negative indices)
RedisLRange(list, start, stop) ==
  SubSeq(list, start + 1, IF stop + 1 < Len(list) THEN stop + 1 ELSE Len(list))

\* ------------------------------------------------------------ state
VARIABLES
  rtask,            \* per process: "init", "listen", "bcast", "failed", "ended"
  chan,             \* per process: messages the broker has pushed to its subscription
  active_sessions,  \* per process: session id -> participant ids, in insertion order
  session_metadata, \* per process: session id -> [created_at, user_count]
  pc,               \* per connection: the await its task is suspended at
  proc, sess,       \* per connection: its process and its session_id
  open,             \* per connection: the transport is open
  inbox,            \* per connection: the texts its client has received, in order
  cur,              \* per connection: the dict its task is handling
  gather,           \* per connection: the asyncio.gather its task awaits
  rgather,          \* per process: the asyncio.gather its relay task awaits
  history,          \* per session: the Redis list session:<id>:events
  ttl,              \* per session: [set: the key has an expiry, at: the clock when it was set]
  appended,         \* per session: every event LPUSHed, oldest first (history variable)
  now,              \* the clock
  nconn,            \* connections accepted so far
  budget,           \* inputs of the environment still to come: connections, client
                    \* messages, transport closures and broker faults
  nbad,             \* per connection: malformed messages received (history variable)
  ndrop             \* per process: undecodable relay messages dropped (history variable)

vars == <<rtask, chan, active_sessions, session_metadata, pc, proc, sess, open,
          inbox, cur, gather, rgather, history, ttl, appended, now, nconn,
          budget, nbad, ndrop>>

procVars == <<rtask, chan, rgather>>
regVars == <<active_sessions, session_metadata>>
brokerVars == <<history, ttl, appended>>
budgetVars == <<budget, nbad, ndrop>>

NoGather ==
  [active |-> FALSE, session |-> NoSession, exclude |-> NoUser, members |-> <<>>,
   targets |-> <<>>, msg |-> Garbled]

\* the outcomes of one broker command: it succeeds, or (an input) it raises
Outcomes == IF budget > 0 THEN {TRUE, FALSE} ELSE {TRUE}
Spend(ok) == budget' = IF ok THEN budget ELSE budget - 1

\* ------------------------------------------------------------ the broker at start
\* a key that does not exist, or exists without an expiry
NoExpiry == [set |-> FALSE, at |-> 0]

\* What the broker holds when the processes start: the history list of s1 with the
\* n events its earlier participants (user id -1, long gone) sent in the last 24 h,
\* stamped -n (the oldest) to -1 (the newest) and stored as _store_session_event
\* stores them, the newest first.
PriorEvent(t) ==
  Dumps([type |-> event_types.VIEW_CHANGE, user_id |-> -1, session_id |-> "s1",
         timestamp |-> t])

PriorHistory(n) == [s \in Sessions |-> IF s = "s1" THEN [i \in 1..n |-> PriorEvent(-i)]
                                       ELSE <<>>]

PriorAppended(n) == [s \in Sessions |-> IF s = "s1" THEN [i \in 1..n |-> PriorEvent(i - n - 1)]
                                        ELSE <<>>]

Broker(n) ==
  /\ history = PriorHistory(n)
  /\ ttl = [s \in Sessions |-> IF s = "s1" /\ n > 0 THEN [set |-> TRUE, at |-> -1]
                                ELSE NoExpiry]
  /\ appended = PriorAppended(n)
  /\ chan = [p \in Procs |-> <<>>]
  /\ now = 0

\* ------------------------------------------------------------ CollaborationManager.__init__
\* lines 16-36: every process constructed, none started, no connection yet
Fresh(inputs) ==
  /\ rtask = [p \in Procs |-> "init"]
  /\ active_sessions = [p \in Procs |-> EmptyDict]
  /\ session_metadata = [p \in Procs |-> EmptyDict]
  /\ pc = [c \in Conns |-> "new"]
  /\ proc = [c \in Conns |-> "p1"]
  /\ sess = [c \in Conns |-> NoSession]
  /\ open = [c \in Conns |-> FALSE]
  /\ inbox = [c \in Conns |-> <<>>]
  /\ cur = [c \in Conns |-> EmptyDict]
  /\ gather = [c \in Conns |-> NoGather]
  /\ rgather = [p \in Procs |-> NoGather]
  /\ nconn = 0
  /\ budget = inputs
  /\ nbad = [c \in Conns |-> 0]
  /\ ndrop = [p \in Procs |-> 0]

Init == Broker(Prior) /\ Fresh(MaxInputs)

\* ------------------------------------------------------------ CollaborationManager.start
\* ping, subscribe and create_task: any failure is logged and re-raised, which
\* fails the application's startup event
Start(p) ==
  /\ rtask[p] = "init"
  /\ \E ok \in Outcomes :
       /\ rtask' = [rtask EXCEPT ![p] = IF ok THEN "listen" ELSE "failed"]
       /\ Spend(ok)
  /\ UNCHANGED <<chan, rgather, regVars, pc, proc, sess, open, inbox, cur, gather,
                 brokerVars, now, nconn, nbad, ndrop>>

\* the relay task of the process is running, subscribed to the channel
Subscribed(p) == rtask[p] \in {"listen", "bcast"}

\* the process serves WebSocket connections once its startup event has completed,
\* whatever becomes of its relay task afterwards
Serving(p) == rtask[p] \in {"listen", "bcast", "ended"}

\* ------------------------------------------------------------ _broadcast_to_session
\* (a variant: the exclusion forgotten)
RecipientsEveryone(sessions, session_id, exclude_user) ==
  IF session_id \notin DOMAIN sessions THEN <<>> ELSE sessions[session_id]

\* the list websockets_to_send, in the dict's order
Recipients(sessions, session_id, exclude_user) ==
  IF session_id \notin DOMAIN sessions THEN <<>>
  ELSE SelectSeq(sessions[session_id],
                 LAMBDA uid : ~(exclude_user # NoUser /\ uid = exclude_user))

\* lines 185-202 up to the await: the gather a call of _broadcast_to_session awaits
\* (members: the session's participants at the call, kept for the properties);
\* with an empty list nothing is awaited
BroadcastToSession(sessions, session_id, data, exclude_user) ==
  LET ws == Recipients(sessions, session_id, exclude_user) IN
  IF ws = <<>> THEN NoGather
  ELSE [active |-> TRUE,
        session |-> session_id,
        exclude |-> exclude_user,
        members |-> sessions[session_id],
        targets |-> ws,
        msg |-> Dumps(data)]

\* _safe_send: websocket.send raises ConnectionClosed on a closed transport, which is
\* swallowed; otherwise the text is written to the transport and reaches the client
SafeSend(box, to, text) ==
  [box EXCEPT ![to] = IF open[to] THEN Append(@, text) ELSE @]

\* (a variant: the first failed send aborts the sends after it)
RECURSIVE SendAllAbort(_, _, _)
SendAllAbort(box, targets, text) ==
  IF targets = <<>> \/ ~open[Head(targets)] THEN box
  ELSE SendAllAbort(SafeSend(box, Head(targets), text), Tail(targets), text)

\* the _safe_send tasks of one gather: created together, they run one after the
\* other in the order of the list, each writing its frame before it can suspend
RECURSIVE SendAll(_, _, _)
SendAll(box, targets, text) ==
  IF targets = <<>> THEN box
  ELSE SendAll(SafeSend(box, Head(targets), text), Tail(targets), text)

\* ------------------------------------------------------------ handle_connection
\* lines 80-89: create the session entry if absent, register, count
AdmitSessions(sessions, session_id, user_id) ==
  LET s1 == IF session_id \in DOMAIN sessions THEN sessions
            ELSE (session_id :> <<>>) @@ sessions
  IN [s1 EXCEPT ![session_id] = Append(@, user_id)]

AdmitMetadata(sessions, metadata, session_id, t) ==
  LET m1 == IF session_id \in DOMAIN sessions THEN metadata
            ELSE (session_id :> [created_at |-> t, user_count |-> 0]) @@ metadata
  IN [m1 EXCEPT ![session_id].user_count = @ + 1]

UserJoin(user_id, t, count) ==
  [type |-> event_types.USER_JOIN, user_id |-> user_id, timestamp |-> t,
   user_count |-> count]

\* processes are interchangeable and so are session ids: the connections are taken
\* to use p1 before p2 and s1 before s2
FirstUse(p, s) ==
  /\ p = "p2" => \E d \in 1..nconn : proc[d] = "p1"
  /\ s = "s2" => \E d \in 1..nconn : sess[d] = "s1"

\* lines 77-97, up to the await of the join broadcast; with nobody to notify the
\* task runs on to the LRANGE of _send_session_state
Connect(p, s) ==
  /\ nconn < MaxConns
  /\ budget > 0
  /\ budget' = budget - 1
  /\ Serving(p)
  /\ FirstUse(p, s)
  /\ LET c == nconn + 1
         as == AdmitSessions(active_sessions[p], s, c)
         md == AdmitMetadata(active_sessions[p], session_metadata[p], s, now)
         g == BroadcastToSession(as, s, UserJoin(c, now, md[s].user_count), c)
     IN /\ nconn' = c
        /\ proc' = [proc EXCEPT ![c] = p]
        /\ sess' = [sess EXCEPT ![c] = s]
        /\ open' = [open EXCEPT ![c] = TRUE]
        /\ active_sessions' = [active_sessions EXCEPT ![p] = as]
        /\ session_metadata' = [session_metadata EXCEPT ![p] = md]
        /\ gather' = [gather EXCEPT ![c] = g]
        /\ pc' = [pc EXCEPT ![c] = IF g.active THEN "join_bcast" ELSE "lrange"]
  /\ UNCHANGED <<procVars, inbox, cur, brokerVars, now, nbad, ndrop>>

\* the await a connection task reaches when the gather of its broadcast is done
AfterGather(at) ==
  CASE at = "join_bcast" -> "lrange"
    [] at = "msg_bcast" -> "publish"
    [] OTHER -> at

\* the sends of the gather a connection task awaits (lines 199-202) run
GatherSend(c) ==
  /\ pc[c] \in {"join_bcast", "msg_bcast", "leave_bcast"}
  /\ gather[c].active
  /\ inbox' = SendAll(inbox, gather[c].targets, gather[c].msg)
  /\ gather' = [gather EXCEPT ![c] = NoGather]
  /\ pc' = [pc EXCEPT ![c] = AfterGather(@)]
  /\ UNCHANGED <<procVars, regVars, proc, sess, open, cur, brokerVars, now, nconn,
                 budgetVars>>

\* ------------------------------------------------------------ _get_session_events
\* lines 253-254; a stored text that does not decode raises, and [] is returned
GetSessionEvents(list, limit) ==
  LET events == RedisLRange(list, 0, limit - 1) IN
  IF \E i \in 1..Len(events) : Loads(events[i]).err # "none" THEN <<>>
  ELSE [i \in 1..Len(events) |-> Loads(events[i]).value]

\* ------------------------------------------------------------ _send_session_state
\* lines 220-225: the events in the order _get_session_events returned them
StateMessage(session_id, events, metadata) ==
  [type |-> "session_state", session_id |-> session_id, events |-> events,
   user_count |-> IF session_id \in DOMAIN metadata
                  THEN metadata[session_id].user_count ELSE 0]

\* lines 218-227: the LRANGE answers (or raises: no events), and the task builds
\* the state message and sends it; a closed transport raises, which line 229
\* catches, and the task enters its message loop either way
LRange(c) ==
  /\ pc[c] = "lrange"
  /\ \E ok \in Outcomes :
       LET events == IF ok THEN GetSessionEvents(history[sess[c]], ReplayLimit) ELSE <<>>
       IN /\ inbox' = SafeSend(inbox, c, Dumps(StateMessage(sess[c], events,
                                                            session_metadata[proc[c]])))
          /\ Spend(ok)
  /\ pc' = [pc EXCEPT ![c] = "recv"]
  /\ UNCHANGED <<procVars, regVars, proc, sess, open, cur, gather, brokerVars, now,
                 nconn, nbad, ndrop>>

\* ------------------------------------------------------------ the message loop
\* lines 108-114: what becomes of an inbound text
\*   "invalid": json.loads raises JSONDecodeError (line 110)
\*   "error":   data.get raises on a value that is no dict (line 112)
\*   "handled": _handle_user_message runs
\* (a variant: any JSON value taken for a dict)
InboundUnchecked(text) ==
  IF Loads(text).err # "none" THEN "invalid" ELSE "handled"

Inbound(text) ==
  IF Loads(text).err # "none" THEN "invalid"
  ELSE IF ~Loads(text).isdict THEN "error"
  ELSE "handled"

\* lines 110-114: both except clauses log and let the async for continue
AfterDropped == "recv"

\* a text of invalid structure: not valid JSON, or valid JSON that is no object
Malformed(text) == ~text.valid \/ ~text.obj

\* (a variant: the fields of the client's message take precedence)
EnrichClientWins(data, user_id, session_id, timestamp) ==
  [k \in DOMAIN data \cup {"user_id", "session_id", "timestamp"} |->
     IF k \in DOMAIN data THEN data[k]
     ELSE CASE k = "user_id" -> user_id
            [] k = "session_id" -> session_id
            [] OTHER -> timestamp]

\* lines 158-163: the client's fields, overridden by the server's
Enrich(data, user_id, session_id, timestamp) ==
  [k \in DOMAIN data \cup {"user_id", "session_id", "timestamp"} |->
     CASE k = "user_id" -> user_id
       [] k = "session_id" -> session_id
       [] k = "timestamp" -> timestamp
       [] OTHER -> data[k]]

\* (a variant: the next text is taken while the last one is being handled)
LoopReadyAlways(at) ==
  at \in {"recv", "lpush", "ltrim", "expire", "msg_bcast", "publish"}

\* lines 106-109: the loop awaits _handle_user_message before it takes the next
\* text off the transport
LoopReady(at) == at = "recv"

\* lines 106-109 and 154-166: the next inbound text arrives; a text that decodes to
\* a dict is stamped and the task awaits the LPUSH of _store_session_event
Receive(c, text) ==
  /\ LoopReady(pc[c])
  /\ open[c]
  /\ budget > 0
  /\ budget' = budget - 1
  /\ IF Inbound(text) = "handled"
     THEN /\ now' = now + 1
          /\ cur' = [cur EXCEPT ![c] = Enrich(Loads(text).value, c, sess[c], now + 1)]
          /\ pc' = [pc EXCEPT ![c] = "lpush"]
     ELSE /\ pc' = [pc EXCEPT ![c] = AfterDropped]
          /\ UNCHANGED <<now, cur>>
  /\ nbad' = [nbad EXCEPT ![c] = IF Malformed(text) THEN @ + 1 ELSE @]
  /\ UNCHANGED <<procVars, regVars, proc, sess, open, inbox, gather, brokerVars, nconn,
                 ndrop>>

\* line 169, reached when _store_session_event returns (or has swallowed a broker
\* error): the broadcast to the others; with nobody to send to, on to the PUBLISH
StartMsgBroadcast(c) ==
  LET g == BroadcastToSession(active_sessions[proc[c]], sess[c], cur[c], c) IN
  /\ gather' = [gather EXCEPT ![c] = g]
  /\ pc' = [pc EXCEPT ![c] = IF g.active THEN "msg_bcast" ELSE "publish"]

\* ------------------------------------------------------------ _store_session_event
\* (a variant: the broker error propagates to the message loop, which logs it)
StoreFailedRaises(c) ==
  /\ gather' = gather
  /\ pc' = [pc EXCEPT ![c] = "recv"]

\* lines 245-247: a broker error is logged, _store_session_event returns and
\* _handle_user_message goes on with line 169
StoreFailed(c) == StartMsgBroadcast(c)

\* line 237
LPush(c) ==
  /\ pc[c] = "lpush"
  /\ \E ok \in Outcomes :
       /\ Spend(ok)
       /\ IF ok
          THEN /\ history' = [history EXCEPT ![sess[c]] = RedisLPush(@, Dumps(cur[c]))]
               /\ appended' = [appended EXCEPT ![sess[c]] = Append(@, Dumps(cur[c]))]
               /\ pc' = [pc EXCEPT ![c] = "ltrim"]
               /\ UNCHANGED gather
          ELSE /\ StoreFailed(c)
               /\ UNCHANGED <<history, appended>>
  /\ UNCHANGED <<procVars, regVars, proc, sess, open, inbox, cur, ttl, now, nconn,
                 nbad, ndrop>>

\* line 240
LTrim(c) ==
  /\ pc[c] = "ltrim"
  /\ \E ok \in Outcomes :
       /\ Spend(ok)
       /\ IF ok
          THEN /\ history' = [history EXCEPT ![sess[c]] = RedisLTrim(@, 0, HistoryCap - 1)]
               /\ pc' = [pc EXCEPT ![c] = "expire"]
               /\ UNCHANGED gather
          ELSE /\ StoreFailed(c)
               /\ UNCHANGED history
  /\ UNCHANGED <<procVars, regVars, proc, sess, open, inbox, cur, ttl, appended, now,
                 nconn, nbad, ndrop>>

\* line 243, and on to line 169
Expire(c) ==
  /\ pc[c] = "expire"
  /\ \E ok \in Outcomes :
       /\ Spend(ok)
       /\ ttl' = [ttl EXCEPT ![sess[c]] = IF ok THEN [set |-> TRUE, at |-> now] ELSE @]
       /\ IF ok THEN StartMsgBroadcast(c) ELSE StoreFailed(c)
  /\ UNCHANGED <<procVars, regVars, proc, sess, open, inbox, cur, history, appended,
                 now, nconn, nbad, ndrop>>

\* ------------------------------------------------------------ publish
\* (a variant: the published text reaches no subscription)
DeliverNowhere(queues, text) == queues

\* the broker pushes a published text to every subscription, the publisher's included
Deliver(queues, text) ==
  [p \in Procs |-> IF Subscribed(p) THEN Append(queues[p], text) ELSE queues[p]]

\* (a variant: the event is stamped again when it is published)
PublishedTextRestamped(data) == Dumps([data EXCEPT !.timestamp = now])

\* line 172: json.dumps(enriched_data), the dict that was stored and broadcast
PublishedText(data) == Dumps(data)

\* line 172; a broker error propagates to line 112, which logs it
Publish(c) ==
  /\ pc[c] = "publish"
  /\ \E ok \in Outcomes :
       /\ Spend(ok)
       /\ chan' = IF ok THEN Deliver(chan, PublishedText(cur[c])) ELSE chan
  /\ pc' = [pc EXCEPT ![c] = "recv"]
  /\ cur' = [cur EXCEPT ![c] = EmptyDict]
  /\ UNCHANGED <<rtask, rgather, regVars, proc, sess, open, inbox, gather, brokerVars,
                 now, nconn, nbad, ndrop>>

\* ------------------------------------------------------------ the transport
\* the client closes the connection, or the network drops it
ClientClose(c) ==
  /\ pc[c] \notin {"new", "leave_bcast", "closed"}
  /\ open[c]
  /\ budget > 0
  /\ budget' = budget - 1
  /\ open' = [open EXCEPT ![c] = FALSE]
  /\ UNCHANGED <<procVars, regVars, pc, proc, sess, inbox, cur, gather, brokerVars,
                 now, nconn, nbad, ndrop>>

\* ------------------------------------------------------------ _handle_user_disconnect
\* (variants: the participant kept, the count kept)
RemoveUserKept(sessions, session_id, user_id) == sessions

DecrementCountSkipped(sessions, metadata, session_id, user_id) == metadata

\* lines 127-129
RemoveUser(sessions, session_id, user_id) ==
  [sessions EXCEPT ![session_id] = SeqRemove(@, user_id)]

DecrementCount(sessions, metadata, session_id, user_id) ==
  IF user_id \in Range(sessions[session_id])
  THEN [metadata EXCEPT ![session_id].user_count = @ - 1]
  ELSE metadata

UserLeave(user_id, t, count) ==
  [type |-> event_types.USER_LEAVE, user_id |-> user_id, timestamp |-> t,
   user_count |-> count]

\* (a variant: the session deleted without the emptiness check)
CleanupSessionsAlways(sessions, session_id) ==
  [k \in DOMAIN sessions \ {session_id} |-> sessions[k]]

\* (a variant: the empty session kept)
CleanupSessionsNever(sessions, session_id) == sessions

\* lines 140-142; a session deleted meanwhile raises KeyError, which line 147 catches
CleanupSessions(sessions, session_id) ==
  IF session_id \in DOMAIN sessions /\ sessions[session_id] = <<>>
  THEN [k \in DOMAIN sessions \ {session_id} |-> sessions[k]]
  ELSE sessions

CleanupMetadata(sessions, metadata, session_id) ==
  IF session_id \in DOMAIN sessions /\ sessions[session_id] = <<>>
  THEN [k \in DOMAIN metadata \ {session_id} |-> metadata[k]]
  ELSE metadata

\* lines 116-137: the async for ends on the closed transport and the finally clause
\* runs _handle_user_disconnect up to the await of the leave broadcast; with nobody
\* left to notify the task runs on through the cleanup of lines 140-143
Disconnect(c) ==
  /\ pc[c] = "recv"
  /\ ~open[c]
  /\ LET p == proc[c]
         s == sess[c]
     IN IF s \in DOMAIN active_sessions[p]
        THEN LET as == RemoveUser(active_sessions[p], s, c)
                 md == DecrementCount(active_sessions[p], session_metadata[p], s, c)
                 g == BroadcastToSession(as, s, UserLeave(c, now, md[s].user_count),
                                         NoUser)
             IN /\ gather' = [gather EXCEPT ![c] = g]
                /\ IF g.active
                   THEN /\ active_sessions' = [active_sessions EXCEPT ![p] = as]
                        /\ session_metadata' = [session_metadata EXCEPT ![p] = md]
                        /\ pc' = [pc EXCEPT ![c] = "leave_bcast"]
                   ELSE /\ active_sessions' =
                             [active_sessions EXCEPT ![p] = CleanupSessions(as, s)]
                        /\ session_metadata' =
                             [session_metadata EXCEPT ![p] = CleanupMetadata(as, md, s)]
                        /\ pc' = [pc EXCEPT ![c] = "closed"]
        ELSE /\ pc' = [pc EXCEPT ![c] = "closed"]
             /\ UNCHANGED <<regVars, gather>>
  /\ UNCHANGED <<procVars, proc, sess, open, inbox, cur, brokerVars, now, nconn,
                 budgetVars>>

\* lines 139-145: the leave broadcast is done and the task resumes
LeaveResume(c) ==
  /\ pc[c] = "leave_bcast"
  /\ ~gather[c].active
  /\ LET p == proc[c] IN
     /\ active_sessions' =
          [active_sessions EXCEPT ![p] = CleanupSessions(active_sessions[p], sess[c])]
     /\ session_metadata' =
          [session_metadata EXCEPT ![p] =
             CleanupMetadata(active_sessions[p], session_metadata[p], sess[c])]
  /\ pc' = [pc EXCEPT ![c] = "closed"]
  /\ UNCHANGED <<procVars, proc, sess, open, inbox, cur, gather, brokerVars, now,
                 nconn, budgetVars>>

\* ------------------------------------------------------------ _handle_pubsub_messages
\* (a variant: the relay excludes nobody)
RelayExcludeNobody(data) == NoUser

\* lines 268 and 272: the relay excludes the event's user_id
RelayExclude(data) == Get(data, "user_id", NoUser)

\* (a variant: an undecodable message ends the listen loop)
AfterRelayDroppedEnds == "ended"

\* lines 274-277: both inner except clauses log and let the async for continue
AfterRelayDropped == "listen"

\* lines 263-277: the next message of the subscription; a text that does not decode
\* to a dict is logged and dropped; an event of a session with local participants
\* is broadcast to them, except to its user_id
RelayReceive(p) ==
  /\ rtask[p] = "listen"
  /\ chan[p] # <<>>
  /\ chan' = [chan EXCEPT ![p] = Tail(@)]
  /\ LET text == Head(chan[p])
         data == Loads(text).value
         session_id == Get(data, "session_id", NoSession)
         user_id == RelayExclude(data)
         g == BroadcastToSession(active_sessions[p], session_id, data, user_id)
     IN IF Inbound(text) = "handled" /\ session_id \in DOMAIN active_sessions[p]
        THEN /\ rgather' = [rgather EXCEPT ![p] = g]
             /\ rtask' = [rtask EXCEPT ![p] = IF g.active THEN "bcast" ELSE "listen"]
        ELSE /\ rgather' = [rgather EXCEPT ![p] = NoGather]
             /\ rtask' = [rtask EXCEPT ![p] = IF Inbound(text) = "handled" THEN "listen"
                                              ELSE AfterRelayDropped]
  /\ ndrop' = [ndrop EXCEPT ![p] = IF Malformed(Head(chan[p])) THEN @ + 1 ELSE @]
  /\ UNCHANGED <<regVars, pc, proc, sess, open, inbox, cur, gather, brokerVars, now,
                 nconn, budget, nbad>>

\* the sends of the gather the relay task awaits run
RelaySend(p) ==
  /\ rtask[p] = "bcast"
  /\ inbox' = SendAll(inbox, rgather[p].targets, rgather[p].msg)
  /\ rgather' = [rgather EXCEPT ![p] = NoGather]
  /\ rtask' = [rtask EXCEPT ![p] = "listen"]
  /\ UNCHANGED <<chan, regVars, pc, proc, sess, open, cur, gather, brokerVars, now,
                 nconn, budgetVars>>

\* line 263: the subscription fails (the broker connection is lost) and
\* pubsub.listen() raises; line 279 logs the error and the task ends
RelayFault(p) ==
  /\ rtask[p] = "listen"
  /\ budget > 0
  /\ budget' = budget - 1
  /\ rtask' = [rtask EXCEPT ![p] = "ended"]
  /\ UNCHANGED <<chan, rgather, regVars, pc, proc, sess, open, inbox, cur, gather,
                 brokerVars, now, nconn, nbad, ndrop>>

\* what another client of the broker may publish on the channel
ForeignTexts == {Garbled, NonObject}

\* another client of the broker publishes a text on the channel
ForeignPublish(text) ==
  /\ budget > 0
  /\ budget' = budget - 1
  /\ chan' = Deliver(chan, text)
  /\ UNCHANGED <<rtask, rgather, regVars, pc, proc, sess, open, inbox, cur, gather,
                 brokerVars, now, nconn, nbad, ndrop>>

\* ------------------------------------------------------------ get_active_sessions
\* lines 284-298; the coroutine awaits nothing, so it reads one state
RECURSIVE SumCounts(_, _)
SumCounts(sessions, ids) ==
  IF ids = {} THEN 0
  ELSE LET id == CHOOSE x \in ids : TRUE
       IN sessions[id].user_count + SumCounts(sessions, ids \ {id})

GetActiveSessions(p) ==
  LET sessions ==
        [s \in DOMAIN active_sessions[p] |->
           [user_count |-> Len(active_sessions[p][s]),
            created_at |-> IF s \in DOMAIN session_metadata[p]
                           THEN session_metadata[p][s].created_at ELSE -1,
            users |-> active_sessions[p][s]]]
  IN [total_sessions |-> Cardinality(DOMAIN sessions),
      total_users |-> SumCounts(sessions, DOMAIN sessions),
      sessions |-> sessions]

\* ------------------------------------------------------------ specification
Next ==
  \/ \E p \in Procs : Start(p)
  \/ \E p \in Procs, s \in Sessions : Connect(p, s)
  \/ \E c \in Conns : GatherSend(c)
  \/ \E c \in Conns : LRange(c)
  \/ \E c \in Conns, text \in ClientTexts : Receive(c, text)
  \/ \E c \in Conns : LPush(c)
  \/ \E c \in Conns : LTrim(c)
  \/ \E c \in Conns : Expire(c)
  \/ \E c \in Conns : Publish(c)
  \/ \E c \in Conns : ClientClose(c)
  \/ \E c \in Conns : Disconnect(c)
  \/ \E c \in Conns : LeaveResume(c)
  \/ \E p \in Procs : RelayReceive(p)
  \/ \E p \in Procs : RelaySend(p)

Spec == Init /\ [][Next]_vars

\* The state Fresh reaches with two connections: p1 started, and participants 1 and
\* 2 of session s1 on p1, each in its message loop after its session_state of the n
\* stored events (and, for 1, the USER_JOIN of 2)
Joined(n, inputs) ==
  /\ rtask = [p \in Procs |-> IF p = "p1" THEN "listen" ELSE "init"]
  /\ active_sessions = [p \in Procs |-> IF p = "p1" THEN ("s1" :> <<1, 2>>) ELSE EmptyDict]
  /\ session_metadata =
       [p \in Procs |-> IF p = "p1" THEN ("s1" :> [created_at |-> 0, user_count |-> 2])
                        ELSE EmptyDict]
  /\ pc = [c \in Conns |-> IF c <= 2 THEN "recv" ELSE "new"]
  /\ proc = [c \in Conns |-> "p1"]
  /\ sess = [c \in Conns |-> IF c <= 2 THEN "s1" ELSE NoSession]
  /\ open = [c \in Conns |-> c <= 2]
  /\ inbox = [c \in Conns |->
       LET events == GetSessionEvents(PriorHistory(n)["s1"], ReplayLimit) IN
       CASE c = 1 -> <<Dumps(StateMessage("s1", events, ("s1" :> [user_count |-> 1]))),
                       Dumps(UserJoin(2, 0, 2))>>
         [] c = 2 -> <<Dumps(StateMessage("s1", events, ("s1" :> [user_count |-> 2])))>>
         [] OTHER -> <<>>]
  /\ cur = [c \in Conns |-> EmptyDict]
  /\ gather = [c \in Conns |-> NoGather]
  /\ rgather = [p \in Procs |-> NoGather]
  /\ nconn = 2
  /\ budget = inputs
  /\ nbad = [c \in Conns |-> 0]
  /\ ndrop = [p \in Procs |-> 0]

InitJoined == Broker(Prior) /\ Joined(Prior, JoinedInputs)

SpecJoined == InitJoined /\ [][Next]_vars

\* The same with a history list at its cap, or one short of it
InitFull ==
  \E n \in {HistoryCap - 1, HistoryCap} : Broker(n) /\ Joined(n, FullInputs)

SpecFull == InitFull /\ [][Next]_vars

\* The state Fresh reaches with three connections: participants 1, 2 and 3 of
\* session s1 on p1, each in its message loop after its session_state and the
\* USER_JOIN of those admitted after it
Trio(n, inputs) ==
  /\ rtask = [p \in Procs |-> IF p = "p1" THEN "listen" ELSE "init"]
  /\ active_sessions =
       [p \in Procs |-> IF p = "p1" THEN ("s1" :> <<1, 2, 3>>) ELSE EmptyDict]
  /\ session_metadata =
       [p \in Procs |-> IF p = "p1" THEN ("s1" :> [created_at |-> 0, user_count |-> 3])
                        ELSE EmptyDict]
  /\ pc = [c \in Conns |-> IF c <= 3 THEN "recv" ELSE "new"]
  /\ proc = [c \in Conns |-> "p1"]
  /\ sess = [c \in Conns |-> IF c <= 3 THEN "s1" ELSE NoSession]
  /\ open = [c \in Conns |-> c <= 3]
  /\ inbox = [c \in Conns |->
       LET events == GetSessionEvents(PriorHistory(n)["s1"], ReplayLimit)
           state == Dumps(StateMessage("s1", events, ("s1" :> [user_count |-> c])))
       IN CASE c = 1 -> <<state, Dumps(UserJoin(2, 0, 2)), Dumps(UserJoin(3, 0, 3))>>
            [] c = 2 -> <<state, Dumps(UserJoin(3, 0, 3))>>
            [] c = 3 -> <<state>>
            [] OTHER -> <<>>]
  /\ cur = [c \in Conns |-> EmptyDict]
  /\ gather = [c \in Conns |-> NoGather]
  /\ rgather = [p \in Procs |-> NoGather]
  /\ nconn = 3
  /\ budget = inputs
  /\ nbad = [c \in Conns |-> 0]
  /\ ndrop = [p \in Procs |-> 0]

InitTrio == Broker(Prior) /\ Trio(Prior, TrioInputs)

SpecTrio == InitTrio /\ [][Next]_vars

\* The engine with the faults of its subscription and with other publishers on the
\* channel, from the state with two participants
NextRelay ==
  \/ Next
  \/ \E p \in Procs : RelayFault(p)
  \/ \E text \in ForeignTexts : ForeignPublish(text)

InitRelay == Broker(Prior) /\ Joined(Prior, RelayInputs)

SpecRelay == InitRelay /\ [][NextRelay]_vars

\* The state Joined reaches when the transport of participant 1 has closed and its
\* disconnect handler awaits the USER_LEAVE broadcast to participant 2
Leaving(n, inputs) ==
  /\ rtask = [p \in Procs |-> IF p = "p1" THEN "listen" ELSE "init"]
  /\ active_sessions = [p \in Procs |-> IF p = "p1" THEN ("s1" :> <<2>>) ELSE EmptyDict]
  /\ session_metadata =
       [p \in Procs |-> IF p = "p1" THEN ("s1" :> [created_at |-> 0, user_count |-> 1])
                        ELSE EmptyDict]
  /\ pc = [c \in Conns |-> CASE c = 1 -> "leave_bcast" [] c = 2 -> "recv" [] OTHER -> "new"]
  /\ proc = [c \in Conns |-> "p1"]
  /\ sess = [c \in Conns |-> IF c <= 2 THEN "s1" ELSE NoSession]
  /\ open = [c \in Conns |-> c = 2]
  /\ inbox = [c \in Conns |->
       LET events == GetSessionEvents(PriorHistory(n)["s1"], ReplayLimit) IN
       CASE c = 1 -> <<Dumps(StateMessage("s1", events, ("s1" :> [user_count |-> 1]))),
                       Dumps(UserJoin(2, 0, 2))>>
         [] c = 2 -> <<Dumps(StateMessage("s1", events, ("s1" :> [user_count |-> 2])))>>
         [] OTHER -> <<>>]
  /\ cur = [c \in Conns |-> EmptyDict]
  /\ gather = [c \in Conns |->
       IF c = 1 THEN BroadcastToSession(("s1" :> <<2>>), "s1", UserLeave(1, 0, 1), NoUser)
       ELSE NoGather]
  /\ rgather = [p \in Procs |-> NoGather]
  /\ nconn = 2
  /\ budget = inputs
  /\ nbad = [c \in Conns |-> 0]
  /\ ndrop = [p \in Procs |-> 0]

InitLeaving == Broker(Prior) /\ Leaving(Prior, LeavingInputs)

SpecLeaving == InitLeaving /\ [][Next]_vars

\* a step in which a broker command raises: an input is spent, and it is neither a
\* connection, a client message nor a transport closure
BrokerFault ==
  budget' < budget /\ UNCHANGED <<nconn, now, open, nbad>>

\* The engine while the broker works: no broker command raises
SpecSound == Init /\ [][Next /\ ~BrokerFault]_vars

\* ============================================================ properties
\* the awaits of a connection task between its admission and its removal
Registered ==
  {"join_bcast", "lrange", "recv", "lpush", "ltrim", "expire", "msg_bcast", "publish"}

\* the connections admitted under session s on process p and not yet removed
Admitted(p, s) == { c \in Conns : pc[c] \in Registered /\ proc[c] = p /\ sess[c] = s }

\* the decoded texts of an inbox
Received(c) == [i \in 1..Len(inbox[c]) |-> Loads(inbox[c][i]).value]

\* an event accepted from a participant, as opposed to a join, a leave or a state
IsUserEvent(m) == "user_id" \in DOMAIN m /\ "session_id" \in DOMAIN m

\* C1: in every state, for every session of every process, user_count equals the
\* number of participants registered in active_sessions, and both equal the number
\* of connections admitted under the session and not yet removed by their
\* disconnect cleanup.
C1_CountMatchesConnections ==
  \A p \in Procs, s \in Sessions :
    IF s \in DOMAIN active_sessions[p]
    THEN /\ s \in DOMAIN session_metadata[p]
         /\ session_metadata[p][s].user_count = Len(active_sessions[p][s])
         /\ Len(active_sessions[p][s]) = Cardinality(Admitted(p, s))
    ELSE Admitted(p, s) = {}

\* a participant is admitted while the leave broadcast of another is in flight
C1_Witness ==
  \E c, d \in Conns :
    /\ pc[c] = "leave_bcast" /\ pc[d] = "join_bcast"
    /\ proc[c] = proc[d] /\ sess[c] = sess[d]

\* C2: in every state a session id is a key of active_sessions exactly if a
\* participant is registered under it: no session entry is empty, and every
\* admitted connection is in the entry of its session.
C2_SessionIffParticipant ==
  /\ \A p \in Procs, s \in Sessions :
       s \in DOMAIN active_sessions[p] => active_sessions[p][s] # <<>>
  /\ \A c \in Conns :
       pc[c] \in Registered =>
         /\ sess[c] \in DOMAIN active_sessions[proc[c]]
         /\ c \in Range(active_sessions[proc[c]][sess[c]])

\* the last participant of a session has left and the entry is gone, while
\* another session of the same process still has its participant
C2_Witness ==
  \E c, d \in Conns :
    /\ pc[c] = "closed" /\ pc[d] \in Registered /\ proc[c] = proc[d]
    /\ sess[c] \notin DOMAIN active_sessions[proc[c]]
    /\ sess[d] \in DOMAIN active_sessions[proc[d]]

\* what the sends of a gather do to the inboxes: the text is appended once to the
\* inbox of every participant registered at the call, except the excluded one
\* (a participant whose transport is closed gets its attempt, which fails)
DeliveredBy(g) ==
  \A r \in Conns :
    inbox'[r] = IF r \in Range(g.members) /\ r # g.exclude /\ open[r]
                THEN Append(inbox[r], g.msg) ELSE inbox[r]

\* C3: _broadcast_to_session(session, event, exclude_user=P) attempts delivery
\* exactly once to every participant registered under the session at the call,
\* except to P; with no exclusion to every one of them; and for a session that is
\* not registered it delivers to nobody.
C3_BroadcastExcludes ==
  /\ [][ /\ \A c \in Conns :
              gather[c].active /\ ~gather'[c].active => DeliveredBy(gather[c])
         /\ \A p \in Procs :
              rgather[p].active /\ ~rgather'[p].active => DeliveredBy(rgather[p]) ]_vars
  /\ [](\A p \in Procs, s \in Sessions, x \in Conns \cup {NoUser} :
          LET ws == Recipients(active_sessions[p], s, x) IN
          IF s \in DOMAIN active_sessions[p]
          THEN /\ Range(ws) = Range(active_sessions[p][s]) \ {x}
               /\ Len(ws) = Cardinality(Range(ws))
          ELSE ws = <<>>)

\* a sender's event has just been delivered to the other participant of its
\* session and not to the sender
C3_Witness ==
  \E c, r \in Conns :
    /\ c # r /\ pc[c] = "publish"
    /\ inbox[r] # <<>> /\ inbox[r][Len(inbox[r])] = Dumps(cur[c])
    /\ \A i \in 1..Len(inbox[c]) : inbox[c][i] # Dumps(cur[c])

\* C4: no participant ever receives an event whose user_id is its own id, on the
\* local send path or from the relay subscriber.
C4_NoEcho ==
  \A c \in Conns : \A i \in 1..Len(inbox[c]) :
    Get(Received(c)[i], "user_id", NoUser) # c

\* the relay subscriber of the origin's own process has re-broadcast an event
\* while its origin was still connected: the other participant holds it twice
C4_Witness ==
  \E c, r \in Conns :
    /\ c # r /\ pc[c] = "recv" /\ open[c] /\ proc[c] = proc[r]
    /\ \E i, j \in 1..Len(inbox[r]) :
         /\ i < j /\ inbox[r][i] = inbox[r][j]
         /\ IsUserEvent(Received(r)[i]) /\ Received(r)[i].user_id = c

\* C5: every event accepted from a participant is received at most once by each
\* other participant of the session on the same process.
C5_NoDuplicateDelivery ==
  \A c \in Conns : \A i, j \in 1..Len(inbox[c]) :
    i < j /\ IsUserEvent(Received(c)[i]) => inbox[c][i] # inbox[c][j]

\* C6: the events of a session_state message are in chronological order, the
\* oldest first.
C6_ReplayChronological ==
  \A c \in Conns : \A i \in 1..Len(inbox[c]) :
    LET m == Received(c)[i] IN
    Get(m, "type", NoType) = "session_state" =>
      \A j, k \in 1..Len(m.events) :
        j < k => m.events[j].timestamp <= m.events[k].timestamp

\* C7: once more than HistoryCap events have been appended to a session,
\* _get_session_events(session, HistoryCap) returns exactly the HistoryCap most
\* recently appended ones, the newest first.
C7_RecentAfterOverflow ==
  \A s \in Sessions :
    LET n == Len(appended[s]) IN
    n > HistoryCap =>
      GetSessionEvents(history[s], HistoryCap) =
        [i \in 1..HistoryCap |-> Loads(appended[s][n + 1 - i]).value]

\* more than HistoryCap appends have been made, each completed, and the list is
\* back at its cap
C7_Witness ==
  /\ Len(appended["s1"]) > HistoryCap
  /\ Len(history["s1"]) = HistoryCap
  /\ \A c \in Conns : pc[c] \notin {"lpush", "ltrim", "expire"}
  /\ ttl["s1"].at = now

\* C8: in every state of the store, between the broker commands of an append too,
\* a history list holds at most HistoryCap entries, and it holds the most recently
\* appended ones (the evicted are the oldest).
C8_HistoryCapped ==
  \A s \in Sessions :
    /\ Len(history[s]) <= HistoryCap
    /\ \A i \in 1..Len(history[s]) :
         history[s][i] = appended[s][Len(appended[s]) + 1 - i]

\* C9: a disconnect of the last participant of a session removes the session from
\* the result of get_active_sessions; a disconnect of one of several leaves it
\* there with user_count one less and without that participant in users.
C9_DisconnectInDirectory ==
  [][ \A c \in Conns :
        pc[c] = "recv" /\ pc'[c] \in {"leave_bcast", "closed"} =>
          LET before == GetActiveSessions(proc[c]).sessions
              after == GetActiveSessions(proc[c])'.sessions
              s == sess[c]
          IN /\ s \in DOMAIN before
             /\ IF before[s].user_count = 1
                THEN s \notin DOMAIN after
                ELSE /\ s \in DOMAIN after
                     /\ after[s].user_count = before[s].user_count - 1
                     /\ after[s].users = SeqRemove(before[s].users, c)
                     /\ c \in Range(before[s].users) ]_vars

\* two disconnects of one session overlap: the first still awaits its leave
\* broadcast when the second, of the last participant, removes the session
C9_Witness ==
  \E c, d \in Conns :
    /\ pc[c] = "leave_bcast" /\ pc[d] = "closed"
    /\ proc[c] = proc[d] /\ sess[c] = sess[d]
    /\ sess[c] \notin DOMAIN GetActiveSessions(proc[c]).sessions

\* C10: a malformed inbound text (no valid JSON, or no JSON object) leaves its
\* sender registered and in its message loop, and causes no history append, no
\* delivery to anyone and no publish.
C10_MalformedDropped ==
  [][ \A c \in Conns :
        nbad'[c] > nbad[c] =>
          /\ pc'[c] = "recv" /\ open'[c]
          /\ c \in Range(active_sessions'[proc[c]][sess[c]])
          /\ UNCHANGED <<regVars, inbox, history, appended, chan, gather, rgather,
                         cur>> ]_vars

\* a connection that sent a malformed text has had a later message accepted and
\* stored
C10_Witness ==
  \E c \in Conns :
    /\ nbad[c] > 0
    /\ \E i \in 1..Len(appended[sess[c]]) :
         Loads(appended[sess[c]][i]).value.user_id = c

\* the seven enumerated event types
EventTypes == { event_types[k] : k \in DOMAIN event_types }

\* the client envelope: a 'type' that is one of the enumerated event types
Conforms(data) == Get(data, "type", NoType) \in EventTypes

\* C11: an inbound client message whose 'type' is missing or is none of the seven
\* enumerated event types is dropped: no event of such a type is ever appended to
\* a history list, delivered to a participant or published on the relay channel.
C11_NonconformingDropped ==
  /\ \A s \in Sessions : \A i \in 1..Len(appended[s]) :
       Conforms(Loads(appended[s][i]).value)
  /\ \A c \in Conns : \A i \in 1..Len(inbox[c]) :
       IsUserEvent(Received(c)[i]) => Conforms(Received(c)[i])
  /\ \A p \in Procs : \A i \in 1..Len(chan[p]) :
       Conforms(Loads(chan[p][i]).value)

\* C12: an event accepted on one process and published reaches the subscription of
\* every serving process; a process that takes it from its subscription delivers
\* it to every local participant of the event's session except the one whose id
\* is the event's user_id, and delivers nothing if it has no local participant of
\* that session.
C12_CrossProcessDelivery ==
  [][ /\ \A c \in Conns :
           pc[c] = "publish" /\ pc'[c] = "recv" /\ budget' = budget =>
             \A q \in Procs :
               chan'[q] = IF Subscribed(q) THEN Append(chan[q], Dumps(cur[c]))
                          ELSE chan[q]
      /\ \A p \in Procs :
           Len(chan'[p]) < Len(chan[p]) =>
             LET data == Loads(Head(chan[p])).value
                 s == Get(data, "session_id", NoSession)
                 u == Get(data, "user_id", NoUser)
                 local == IF s \in DOMAIN active_sessions[p]
                          THEN Range(active_sessions[p][s]) \ {u} ELSE {}
             IN IF local # {}
                THEN /\ rgather'[p].active
                     /\ Range(rgather'[p].targets) = local
                     /\ rgather'[p].msg = Head(chan[p])
                     /\ inbox' = inbox
                ELSE ~rgather'[p].active /\ inbox' = inbox
      /\ \A p \in Procs :
           rgather[p].active /\ ~rgather'[p].active =>
             \A r \in Conns :
               inbox'[r] = IF r \in Range(rgather[p].targets) /\ open[r]
                           THEN Append(inbox[r], rgather[p].msg) ELSE inbox[r] ]_vars

\* a participant on p1 holds an event accepted from a participant of its session
\* on p2
C12_Witness ==
  \E c, r \in Conns :
    /\ proc[c] = "p2" /\ proc[r] = "p1" /\ pc[r] = "recv" /\ sess[c] = sess[r]
    /\ \E i \in 1..Len(inbox[r]) :
         IsUserEvent(Received(r)[i]) /\ Received(r)[i].user_id = c

\* no task is between two awaits of a handler and no relayed message is pending
Idle ==
  /\ \A c \in Conns : pc[c] \in {"new", "recv", "closed"}
  /\ \A p \in Procs : rtask[p] # "bcast" /\ chan[p] = <<>>

\* participant r holds an event of the given type about participant d
HoldsEvent(r, type, d) ==
  \E i \in 1..Len(inbox[r]) :
    LET m == Received(r)[i] IN
    /\ Get(m, "type", NoType) = type
    /\ Get(m, "user_id", NoUser) = d
    /\ "user_count" \in DOMAIN m

\* C13: once the admission of a participant d has run to its message loop and
\* nothing is pending, every participant admitted to d's session before d and
\* still connected, on d's process or on another, holds a USER_JOIN event with
\* user_id d and a participant count.
C13_JoinBroadcastAndRelayed ==
  Idle =>
    \A d, r \in Conns :
      r < d /\ pc[d] = "recv" /\ pc[r] = "recv" /\ open[r] /\ sess[r] = sess[d] =>
        HoldsEvent(r, event_types.USER_JOIN, d)

\* the positions of participant r's inbox that hold an event of the given type
\* about participant d
EventsHeld(r, type, d) ==
  { i \in 1..Len(inbox[r]) :
      /\ Get(Received(r)[i], "type", NoType) = type
      /\ Get(Received(r)[i], "user_id", NoUser) = d }

\* C14: once the disconnect of an admitted participant c has run to its end and
\* nothing is pending, c is out of the registry, and every participant admitted to
\* c's session before c and still connected holds a USER_LEAVE event naming c with
\* a participant count: exactly one if it is on c's process, and at least one,
\* through the relay channel, if it is on another process.
C14_LeaveBroadcastAndRelayed ==
  Idle =>
    \A c \in Conns :
      pc[c] = "closed" =>
        /\ \A s \in DOMAIN active_sessions[proc[c]] :
             c \notin Range(active_sessions[proc[c]][s])
        /\ \A r \in Conns :
             r < c /\ pc[r] = "recv" /\ open[r] /\ sess[r] = sess[c] =>
               /\ HoldsEvent(r, event_types.USER_LEAVE, c)
               /\ proc[r] = proc[c] =>
                    Cardinality(EventsHeld(r, event_types.USER_LEAVE, c)) = 1

\* what the sends of a gather do to the inboxes: every target whose transport is
\* open gets the text, whatever became of the sends to the other targets
AttemptedToAll(g) ==
  \A r \in Conns :
    inbox'[r] = IF r \in Range(g.targets) /\ open[r]
                THEN Append(inbox[r], g.msg) ELSE inbox[r]

\* C15: when the sends of a broadcast run, the failure of the send to some of its
\* recipients (their transport is closed) does not keep the text from any other
\* recipient, and the caller (the message loop, the join or leave path, the relay
\* subscriber) resumes after the broadcast as it does when no send fails, with the
\* registry as it was.
C15_SendFailureIsolated ==
  [][ /\ \A c \in Conns :
           gather[c].active /\ ~gather'[c].active =>
             /\ AttemptedToAll(gather[c])
             /\ pc'[c] = AfterGather(pc[c])
             /\ UNCHANGED regVars
      /\ \A p \in Procs :
           rgather[p].active /\ ~rgather'[p].active =>
             /\ AttemptedToAll(rgather[p])
             /\ rtask'[p] = "listen"
             /\ UNCHANGED regVars ]_vars

\* the join broadcast of c has run: the send to q, earlier in the list, failed on
\* its closed transport, and r, later in the list, holds the USER_JOIN of c
C15_Witness ==
  \E c, q, r \in Conns :
    /\ q < r /\ r < c /\ pc[c] = "lrange"
    /\ sess[q] = sess[c] /\ sess[r] = sess[c]
    /\ proc[q] = proc[c] /\ proc[r] = proc[c]
    /\ pc[q] = "recv" /\ ~open[q] /\ open[r]
    /\ ~HoldsEvent(q, event_types.USER_JOIN, c)
    /\ HoldsEvent(r, event_types.USER_JOIN, c)

\* after the sends of a gather, no target whose send failed is registered any more
FailedTargetsRemoved(g) ==
  \A q \in Range(g.targets) :
    ~open[q] =>
      \A s \in DOMAIN active_sessions'[proc[q]] :
        q \notin Range(active_sessions'[proc[q]][s])

\* C16: a send that fails during a broadcast disconnects its recipient: when the
\* broadcast returns to its caller, every recipient whose send failed has been
\* removed from the registry, as by _handle_user_disconnect.
C16_SendFailureDisconnects ==
  [][ /\ \A c \in Conns :
           gather[c].active /\ ~gather'[c].active => FailedTargetsRemoved(gather[c])
      /\ \A p \in Procs :
           rgather[p].active /\ ~rgather'[p].active => FailedTargetsRemoved(rgather[p])
    ]_vars

\* C17: a broker fault while a well-formed message is handled is not fatal and
\* does not suppress local delivery.  If LPUSH, LTRIM or EXPIRE fails, the sender's
\* task goes on to broadcast the event to every other local participant and from
\* there to the PUBLISH; if the PUBLISH fails, the event has been delivered locally
\* and stays so; in each case the sender stays registered and connected, and is
\* back in its message loop after the PUBLISH.
C17_BrokerFaultsNotFatal ==
  [][ \A c \in Conns :
        LET others == Range(active_sessions[proc[c]][sess[c]]) \ {c} IN
        /\ pc[c] \in {"lpush", "ltrim", "expire"} /\ pc'[c] # pc[c] /\ budget' < budget =>
             /\ UNCHANGED <<regVars, open, cur, inbox>>
             /\ c \in Range(active_sessions[proc[c]][sess[c]])
             /\ IF others = {} THEN pc'[c] = "publish"
                ELSE /\ pc'[c] = "msg_bcast"
                     /\ gather'[c].active
                     /\ Range(gather'[c].targets) = others
                     /\ gather'[c].msg = Dumps(cur[c])
        /\ pc[c] = "msg_bcast" /\ pc'[c] # "msg_bcast" =>
             /\ pc'[c] = "publish"
             /\ AttemptedToAll(gather[c])
             /\ UNCHANGED <<regVars, open, cur>>
        /\ pc[c] = "publish" /\ pc'[c] # "publish" =>
             /\ pc'[c] = "recv"
             /\ UNCHANGED <<regVars, open, inbox>>
             /\ c \in Range(active_sessions[proc[c]][sess[c]])
             /\ budget' = budget =>
                  \A q \in Procs :
                    Subscribed(q) => chan'[q] = Append(chan[q], Dumps(cur[c])) ]_vars

\* an event whose history append failed is held by another participant and is
\* on the relay channel, and its sender is back in its message loop
C17_Witness ==
  \E c, r \in Conns :
    /\ c # r /\ pc[c] = "recv" /\ open[c]
    /\ c \in Range(active_sessions[proc[c]][sess[c]])
    /\ \E i \in 1..Len(inbox[r]) :
         /\ IsUserEvent(Received(r)[i]) /\ Received(r)[i].user_id = c
         /\ inbox[r][i] \notin Range(appended[sess[c]])
         /\ inbox[r][i] \in Range(chan[proc[c]])

\* C18: a process whose start() has run serves connections, whether the broker
\* was reachable or not: a broker that is unreachable at start does not fail the
\* application's startup.
C18_StartFaultServes ==
  \A p \in Procs : rtask[p] # "init" => Serving(p)

\* C19: every participant receives the events of different senders of its session
\* in the order in which they were accepted (stamped): an event is not received
\* for the first time after an event of another sender that was accepted later.
C19_LocalOrderMatchesAcceptance ==
  \A r \in Conns : \A i, j \in 1..Len(inbox[r]) :
    LET mi == Received(r)[i]
        mj == Received(r)[j]
    IN i < j /\ IsUserEvent(mi) /\ IsUserEvent(mj)
         /\ mi.user_id # mj.user_id /\ mj.timestamp < mi.timestamp
       => \E k \in 1..(i - 1) : inbox[r][k] = inbox[r][j]

\* C20: the result of get_active_sessions in any state, between the awaits of any
\* connects and disconnects, is a consistent snapshot: every listed session has at
\* least one participant, a creation time, and a user_count equal to the length
\* of its users list, which lists each admitted connection of the session once;
\* total_sessions is the number of listed sessions and total_users the number of
\* listed participants.  (The result is a function of the state: the call writes
\* no variable.)
C20_DirectorySnapshot ==
  \A p \in Procs :
    LET d == GetActiveSessions(p) IN
    /\ \A s \in DOMAIN d.sessions :
         /\ Len(d.sessions[s].users) >= 1
         /\ d.sessions[s].user_count = Len(d.sessions[s].users)
         /\ d.sessions[s].created_at >= 0
         /\ Range(d.sessions[s].users) = Admitted(p, s)
         /\ Cardinality(Admitted(p, s)) = d.sessions[s].user_count
    /\ d.total_sessions = Cardinality(DOMAIN d.sessions)
    /\ d.total_users =
         Cardinality(UNION { { <<s, u>> : u \in Admitted(p, s) } : s \in DOMAIN d.sessions })
    /\ \A s \in Sessions : s \notin DOMAIN d.sessions => Admitted(p, s) = {}

\* the directory is read while a disconnect awaits its leave broadcast and a
\* connect its join broadcast: it lists the session with the participants that
\* remain and the one that has just been admitted
C20_Witness ==
  \E c, d \in Conns :
    /\ pc[c] = "leave_bcast" /\ pc[d] = "join_bcast"
    /\ proc[c] = proc[d] /\ sess[c] = sess[d]
    /\ GetActiveSessions(proc[d]).total_users >= 2
    /\ d \in Range(GetActiveSessions(proc[d]).sessions[sess[d]].users)
    /\ c \notin Range(GetActiveSessions(proc[d]).sessions[sess[d]].users)

\* C21: the mutations of one session's participant set are serialized: while the
\* remove of a participant c is in progress (from its deletion to the end of its
\* cleanup, across the await of the USER_LEAVE broadcast), no admit to c's session
\* and no other remove from it begins on c's process.
C21_MutationsSerialized ==
  [][ \A c, d \in Conns :
        c # d /\ pc[c] = "leave_bcast" /\ proc'[d] = proc[c] /\ sess'[d] = sess[c] =>
          /\ ~(pc[d] = "new" /\ pc'[d] # "new")
          /\ ~(pc[d] = "recv" /\ pc'[d] \in {"leave_bcast", "closed"}) ]_vars

\* C22: a participant receives its session_state before any ordinary event: no
\* event accepted from another participant, sent directly or by the relay, is
\* delivered to it between its admission and its session_state.
C22_StateMessageFirst ==
  \A c \in Conns : \A i \in 1..Len(inbox[c]) :
    IsUserEvent(Received(c)[i]) =>
      \E j \in 1..(i - 1) : Get(Received(c)[j], "type", NoType) = "session_state"

\* the awaits of _handle_user_message
Handling == {"lpush", "ltrim", "expire", "msg_bcast", "publish"}

\* the timestamp a text carries
Stamp(text) == Loads(text).value.timestamp

\* C23: an event's timestamp is assigned once, when the client message is accepted,
\* and every copy of the event carries it: the dict being handled keeps it, and
\* the history entry, the text of the local broadcast, the published text, the
\* text a relay subscriber re-broadcasts and every text delivered bear the
\* timestamp of the dict or text they were made from.
C23_TimestampAssignedOnce ==
  [][ /\ \A c \in Conns :
           /\ pc[c] = "recv" /\ pc'[c] = "lpush" =>
                now' = now + 1 /\ cur'[c].timestamp = now'
           /\ pc[c] \in Handling /\ pc'[c] \in Handling => cur'[c] = cur[c]
           /\ pc[c] = "lpush" /\ pc'[c] = "ltrim" =>
                /\ Stamp(Head(history'[sess[c]])) = cur[c].timestamp
                /\ Stamp(appended'[sess[c]][Len(appended'[sess[c]])]) = cur[c].timestamp
           /\ pc[c] # "msg_bcast" /\ pc'[c] = "msg_bcast" =>
                Stamp(gather'[c].msg) = cur[c].timestamp
           /\ pc[c] = "msg_bcast" /\ pc'[c] # "msg_bcast" =>
                \A r \in Conns :
                  inbox'[r] # inbox[r] =>
                    Stamp(inbox'[r][Len(inbox'[r])]) = cur[c].timestamp
           /\ pc[c] = "publish" /\ pc'[c] # "publish" =>
                \A q \in Procs :
                  chan'[q] # chan[q] =>
                    Stamp(chan'[q][Len(chan'[q])]) = cur[c].timestamp
      /\ \A p \in Procs :
           /\ ~rgather[p].active /\ rgather'[p].active =>
                Stamp(rgather'[p].msg) = Stamp(Head(chan[p]))
           /\ rgather[p].active /\ ~rgather'[p].active =>
                \A r \in Conns :
                  inbox'[r] # inbox[r] =>
                    Stamp(inbox'[r][Len(inbox'[r])]) = Stamp(rgather[p].msg) ]_vars

\* a participant holds an event twice, sent directly and by the relay, and the
\* history holds it too, all with the timestamp it was accepted with
C23_Witness ==
  \E c, r \in Conns :
    /\ c # r
    /\ \E i, j \in 1..Len(inbox[r]) :
         /\ i < j /\ IsUserEvent(Received(r)[i]) /\ IsUserEvent(Received(r)[j])
         /\ Received(r)[i].user_id = c /\ Received(r)[j].user_id = c
         /\ Received(r)[i].timestamp = Received(r)[j].timestamp
         /\ \E k \in 1..Len(history[sess[c]]) :
              /\ Loads(history[sess[c]][k]).value.user_id = c
              /\ Stamp(history[sess[c]][k]) = Received(r)[i].timestamp

\* C24: once an append to a session's history has run to its end, with or without
\* a failed broker command, a history list that holds an entry has an expiry, and
\* the expiry was set no earlier than the list's newest entry was written.
C24_ExpiryFollowsAppend ==
  \A s \in Sessions :
    (\A c \in Conns : sess[c] = s => pc[c] \notin {"ltrim", "expire"}) /\ history[s] # <<>> =>
      /\ ttl[s].set
      /\ ttl[s].at >= Stamp(history[s][1])

\* C25: a relay message that does not decode to a JSON object is dropped: nothing
\* is broadcast for it and the relay task goes on listening, with the messages
\* behind it still in its subscription; a well-formed message it takes next for a
\* session with local participants is broadcast to them.
C25_RelayDecodeFailureDropped ==
  [][ \A p \in Procs :
        /\ ndrop'[p] > ndrop[p] =>
             /\ rtask'[p] = "listen"
             /\ ~rgather'[p].active
             /\ chan'[p] = Tail(chan[p])
             /\ UNCHANGED <<regVars, inbox, gather, brokerVars>>
        /\ Len(chan'[p]) < Len(chan[p]) /\ ndrop'[p] = ndrop[p] =>
             LET data == Loads(Head(chan[p])).value
                 s == Get(data, "session_id", NoSession)
             IN s \in DOMAIN active_sessions[p]
                  /\ Range(active_sessions[p][s]) \ {Get(data, "user_id", NoUser)} # {}
                => /\ rgather'[p].active
                   /\ rgather'[p].msg = Head(chan[p]) ]_vars

\* the relay task has dropped an undecodable message and is broadcasting a
\* well-formed one that came after it
C25_Witness ==
  \E p \in Procs :
    /\ ndrop[p] > 0
    /\ rtask[p] = "bcast"
    /\ rgather[p].active
    /\ IsUserEvent(Loads(rgather[p].msg).value)

\* C26: from a successful start() on, the relay task of a process stays running
\* and subscribed to the channel, whatever faults its subscription meets.
C26_RelayStaysSubscribed ==
  \A p \in Procs : rtask[p] \notin {"init", "failed"} => Subscribed(p)

\* the events of the session_state messages a participant holds
Replayed(c) ==
  UNION { Range(Received(c)[i].events) :
            i \in { k \in 1..Len(inbox[c]) :
                      Get(Received(c)[k], "type", NoType) = "session_state" } }

\* the events accepted from participants that a participant holds, sent to it
\* directly or by the relay
Live(c) == { Received(c)[i] : i \in { k \in 1..Len(inbox[c]) : IsUserEvent(Received(c)[k]) } }

C28_ResumedCleanupHarmless ==
  /\ [](\A c \in Conns :
          pc[c] \in Registered =>
            /\ sess[c] \in DOMAIN active_sessions[proc[c]]
            /\ sess[c] \in DOMAIN session_metadata[proc[c]]
            /\ c \in Range(active_sessions[proc[c]][sess[c]]))
  /\ [][ \A c \in Conns :
           pc[c] = "leave_bcast" /\ pc'[c] # "leave_bcast" =>
             /\ pc'[c] = "closed"
             /\ \A s \in DOMAIN active_sessions[proc[c]] :
                  active_sessions[proc[c]][s] # <<>> =>
                    /\ s \in DOMAIN active_sessions'[proc[c]]
                    /\ s \in DOMAIN session_metadata'[proc[c]]
                    /\ active_sessions'[proc[c]][s] = active_sessions[proc[c]][s]
                    /\ session_metadata'[proc[c]][s] = session_metadata[proc[c]][s] ]_vars

\* while the handler of participant 1 awaited its broadcast the last other
\* participant left, which deleted the session, and a new participant re-created
\* it; the handler has resumed and the new participant is registered
C28_Witness ==
  \E c, d, e \in Conns :
    /\ pc[c] = "closed" /\ pc[d] = "closed" /\ c < d /\ d < e
    /\ proc[d] = proc[c] /\ proc[e] = proc[c] /\ sess[d] = sess[c] /\ sess[e] = sess[c]
    /\ pc[e] \in Registered
    /\ active_sessions[proc[c]][sess[c]] = <<e>>
    /\ ~HoldsEvent(e, event_types.USER_LEAVE, d)
    /\ ~HoldsEvent(e, event_types.USER_LEAVE, c)
    /\ pc[e] = "recv"

\* the event carries the server's id of connection c and c's session
OriginIs(m, c) == IsUserEvent(m) /\ m.user_id = c /\ m.session_id = sess[c]

\* the event's origin is a connection admitted to session s
OriginIn(m, s) == m.user_id \in 1..nconn /\ m.session_id = s /\ sess[m.user_id] = s

\* C29: the origin of an event cannot be chosen by the client.  Whatever user_id,
\* session_id or timestamp the client's message holds, the dict made of it carries
\* the id of the connection that sent it and that connection's session; so do the
\* history entry, the broadcast text and the published text made of the dict; and
\* every event appended, published or delivered names a connection of the
\* session it was appended or delivered under.
C29_OriginServerAssigned ==
  /\ [](/\ \A c \in Conns :
             /\ pc[c] \in Handling => OriginIs(cur[c], c)
             /\ pc[c] = "recv" =>
                  \A text \in ClientTexts :
                    Inbound(text) = "handled" =>
                      OriginIs(Enrich(Loads(text).value, c, sess[c], now + 1), c)
             /\ \A i \in 1..Len(inbox[c]) :
                  IsUserEvent(Received(c)[i]) => OriginIn(Received(c)[i], sess[c])
        /\ \A s \in Sessions : \A i \in 1..Len(appended[s]) :
             i > Prior => OriginIn(Loads(appended[s][i]).value, s)
        /\ \A p \in Procs : \A i \in 1..Len(chan[p]) :
             LET m == Loads(chan[p][i]).value IN OriginIn(m, m.session_id))
  /\ [][ \A c \in Conns :
           /\ pc[c] = "recv" /\ pc'[c] = "lpush" => OriginIs(cur'[c], c)
           /\ pc[c] = "lpush" /\ pc'[c] = "ltrim" =>
                /\ OriginIs(Loads(Head(history'[sess[c]])).value, c)
                /\ OriginIs(Loads(appended'[sess[c]][Len(appended'[sess[c]])]).value, c)
           /\ pc[c] # "msg_bcast" /\ pc'[c] = "msg_bcast" =>
                OriginIs(Loads(gather'[c].msg).value, c)
           /\ pc[c] = "publish" /\ pc'[c] # "publish" =>
                \A q \in Procs :
                  chan'[q] # chan[q] =>
                    OriginIs(Loads(chan'[q][Len(chan'[q])]).value, c) ]_vars

\* a client message that named another participant, another session and its own
\* timestamp was stored, delivered to a co-located participant and published with
\* the sender's id and session
C29_Witness ==
  \E c, r \in Conns :
    /\ c # r /\ c # 1 /\ sess[c] = "s1"
    /\ \E i \in 1..Len(appended["s1"]) :
         LET e == Loads(appended["s1"][i]).value IN
         e.type = "bogus" /\ e.user_id = c /\ e.session_id = "s1" /\ e.timestamp > 0
    /\ \E i \in 1..Len(inbox[r]) :
         LET m == Received(r)[i] IN
         IsUserEvent(m) /\ m.type = "bogus" /\ m.user_id = c /\ m.session_id = "s1"
    /\ \E p \in Procs : \E i \in 1..Len(chan[p]) :
         LET m == Loads(chan[p][i]).value IN m.type = "bogus" /\ m.user_id = c

\* the events of sender c among a sequence of texts, as their timestamps in order
RECURSIVE StampsOf(_, _)
StampsOf(texts, c) ==
  IF texts = <<>> THEN <<>>
  ELSE LET m == Loads(Head(texts)).value IN
       IF IsUserEvent(m) /\ m.user_id = c
       THEN <<m.timestamp>> \o StampsOf(Tail(texts), c)
       ELSE StampsOf(Tail(texts), c)

Ascending(q) == \A i, j \in 1..Len(q) : i < j => q[i] < q[j]

Descending(q) == \A i, j \in 1..Len(q) : i < j => q[i] > q[j]

\* C30: the messages of one participant are handled one at a time.  A message of
\* connection c is stamped only when c's loop is between messages; while one is
\* being handled it is the newest event of c anywhere, and before its append it
\* is in no history, inbox or channel.  So per sender the history lists hold the
\* events in arrival order, newest first, and each direct local delivery of an
\* event of c hands the recipient an event newer than every event of c it holds.
C30_OneMessageAtATime ==
  /\ [](\A c \in Conns :
          /\ pc[c] \in Handling =>
               /\ \A s \in Sessions : \A i \in 1..Len(StampsOf(appended[s], c)) :
                    StampsOf(appended[s], c)[i] <= cur[c].timestamp
               /\ \A r \in Conns : \A i \in 1..Len(StampsOf(inbox[r], c)) :
                    StampsOf(inbox[r], c)[i] <= cur[c].timestamp
               /\ \A p \in Procs : \A i \in 1..Len(StampsOf(chan[p], c)) :
                    StampsOf(chan[p], c)[i] <= cur[c].timestamp
          /\ pc[c] = "lpush" =>
               /\ \A s \in Sessions : \A i \in 1..Len(StampsOf(appended[s], c)) :
                    StampsOf(appended[s], c)[i] < cur[c].timestamp
               /\ \A r \in Conns : \A i \in 1..Len(StampsOf(inbox[r], c)) :
                    StampsOf(inbox[r], c)[i] < cur[c].timestamp
               /\ \A p \in Procs : \A i \in 1..Len(StampsOf(chan[p], c)) :
                    StampsOf(chan[p], c)[i] < cur[c].timestamp
          /\ \A s \in Sessions :
               /\ Ascending(StampsOf(appended[s], c))
               /\ Descending(StampsOf(history[s], c)))
  /\ [][ \A c \in Conns :
           /\ pc'[c] = "lpush" /\ cur'[c] # cur[c] =>
                pc[c] = "recv" /\ cur[c] = EmptyDict /\ ~gather[c].active
           /\ pc[c] = "msg_bcast" /\ pc'[c] # "msg_bcast" =>
                \A r \in Conns :
                  inbox'[r] # inbox[r] =>
                    /\ Stamp(inbox'[r][Len(inbox'[r])]) = cur[c].timestamp
                    /\ \A i \in 1..Len(StampsOf(inbox[r], c)) :
                         StampsOf(inbox[r], c)[i] < cur[c].timestamp ]_vars

\* two messages of one sender were handled one after the other: the history holds
\* both, the later one first, and a co-located recipient holds both in the order
\* they arrived
C30_Witness ==
  \E c, r \in Conns :
    /\ c # r /\ pc[c] = "recv" /\ sess[c] # NoSession
    /\ Len(StampsOf(history[sess[c]], c)) = 2
    /\ StampsOf(history[sess[c]], c)[1] > StampsOf(history[sess[c]], c)[2]
    /\ Len(StampsOf(inbox[r], c)) >= 2
    /\ StampsOf(inbox[r], c)[1] < StampsOf(inbox[r], c)[Len(StampsOf(inbox[r], c))]

====
